---- MODULE Spec2Model ----
(***************************************************************************)
(* A model of the EHR retrieval program: the OAuth token cache of          *)
(* EpicAuthClient (src/epic_auth.py), the rate-limited, paginated          *)
(* EpicFHIRClient (src/epic_fhir_client.py), the text building, indexing   *)
(* and search of FHIREmbeddingPipeline (src/embedding_pipeline.py) and the *)
(* ingestion loop of src/index_patient.py.                                 *)
(*                                                                         *)
(* Time is an integer count of ticks of 0.1 s, the finest interval the     *)
(* code uses (min_request_interval).  Every duration of the code is given  *)
(* in ticks.  The program is single-threaded: an action is the code that   *)
(* runs between two returns to the caller or between two HTTP attempts.    *)
(***************************************************************************)
EXTENDS Integers, Sequences, FiniteSets, TLC

VARIABLES
    now,                \* the wall clock (time.time() / datetime.now()), in ticks
    access_token,       \* EpicAuthClient.access_token (None or a token)
    token_expiry,       \* EpicAuthClient.token_expiry (None or a clock value)
    last_exchange,      \* history: the last successful exchange, <<token, T, E>>
    token_requests,     \* history: the number of token requests sent
    last_jti,           \* history: the jti of the last assertion sent
    authCall,           \* history: the last get_access_token call and its outcome
    last_request_time,  \* EpicFHIRClient.last_request_time
    pages,              \* the remote API: the page served at each page url
    call,               \* the running client operation (its locals and position)
    sends,              \* history: the resource requests of the running operation
    outbound,           \* history: the outbound calls of the last attempt
    store,              \* the Chroma collection: the set of stored entries
    searchCall,         \* history: the last search call and its outcome
    textCall,           \* history: the last text-building call and its outcome
    indexCall,          \* history: the last index_patient_data call and its outcome
    ingest              \* index_patient / main: the running ingestion

vars == <<now, access_token, token_expiry, last_exchange, token_requests, last_jti,
          authCall, last_request_time,
          pages, call, sends, outbound, store, searchCall, textCall, indexCall,
          ingest>>

authVars == <<access_token, token_expiry, last_exchange, token_requests, last_jti,
              authCall>>
fhirVars == <<last_request_time, pages, call, sends, outbound>>
pipeVars == <<store, searchCall, textCall, indexCall, ingest>>

-----------------------------------------------------------------------------
(* Durations of the code, in ticks of 0.1 s *)

TicksPerSecond == 10
\* self.min_request_interval = 0.1
MinRequestInterval == 1
\* time.sleep(2)
RetryDelay == 20
\* timedelta(minutes=5)
Margin == 3000
\* token_data.get("expires_in", 3600)
DefaultExpiresIn == 36000

\* Python's None for access_token, token_expiry and url.  Clock values are
\* positive (StartTime > 0) and tokens are numbered from 1, so 0 is free.
None == 0

(* Bounds of the model *)

\* the clock value at construction
StartTime == 5
\* token requests per run
MaxExchanges == 3

\* Python truthiness of an Optional value: None is falsy, a non-empty token or a
\* datetime is truthy.
Truthy(x) == x # None

Last(s) == s[Len(s)]

-----------------------------------------------------------------------------
(* EpicAuthClient *)

\* What the token endpoint may answer to one token request.
\*   ok              200 with JSON {access_token, expires_in?}
\*   http_error      a 4xx/5xx status: raise_for_status() raises HTTPError
\*   network_error   requests.post raises a RequestException
\*   no_access_token 200 whose JSON lacks "access_token": KeyError
\*   bad_expires_in  200 whose "expires_in" is not a number: timedelta raises TypeError
AuthKinds == {"ok", "http_error", "network_error", "no_access_token", "bad_expires_in"}

AuthResponse(kind, has_expires_in, expires_in, latency) ==
    [kind |-> kind, has_expires_in |-> has_expires_in,
     expires_in |-> expires_in, latency |-> latency]

\* _create_jwt_assertion: the jti is "{client_id}--{int(time.time())}"; the client
\* id is fixed, so the jti is identified by the whole second of the clock.
JwtId(t) == t \div TicksPerSecond

\* Variants of the cache test: one that still serves the token at
\* token_expiry - 5 min, one that never looks at token_expiry, one that never
\* looks at force_refresh.
UseCachedMutIgnoreForce(force_refresh, tok, exp, t) ==
    /\ Truthy(tok) /\ Truthy(exp)
    /\ t < exp - Margin

UseCachedMutLe(force_refresh, tok, exp, t) ==
    /\ ~force_refresh /\ Truthy(tok) /\ Truthy(exp)
    /\ t <= exp - Margin

UseCachedMutNoExpiry(force_refresh, tok, exp, t) ==
    /\ ~force_refresh /\ Truthy(tok) /\ Truthy(exp)

\* The cache test of get_access_token (lines 109-110), at clock value t.
UseCached(force_refresh, tok, exp, t) ==
    /\ ~force_refresh /\ Truthy(tok) /\ Truthy(exp)
    /\ t < exp - Margin

\* The exchange of get_access_token (lines 116-147) started at clock value t with
\* cache (tok, exp); new is the token the endpoint issues.  The result gives the
\* cache and the clock after the call and what was returned or raised.  granted
\* is the lifetime the endpoint stated for the token it issued: <<token, T, E>>
\* for a token issued at T with lifetime E, <<>> when it stated none.
Exchange(tok, exp, t, resp, new) ==
    LET t2 == t + resp.latency
        expires_in == IF resp.has_expires_in THEN resp.expires_in ELSE DefaultExpiresIn
        base == [sent |-> TRUE, now |-> t2, jti |-> <<JwtId(t)>>, kind |-> resp.kind]
    IN  CASE resp.kind = "ok" ->
               base @@ [raised |-> "none", result |-> new,
                        access_token |-> new, token_expiry |-> t2 + expires_in,
                        granted |-> <<new, t2, expires_in>>]
          [] resp.kind = "bad_expires_in" ->
               \* line 136 has run, line 138 raises
               base @@ [raised |-> "TypeError", result |-> None,
                        access_token |-> new, token_expiry |-> exp,
                        granted |-> <<>>]
          [] resp.kind = "no_access_token" ->
               \* line 136 raises
               base @@ [raised |-> "KeyError", result |-> None,
                        access_token |-> tok, token_expiry |-> exp,
                        granted |-> <<>>]
          [] OTHER ->
               \* http_error, network_error: caught at line 143 and re-raised
               base @@ [raised |-> "RequestException", result |-> None,
                        access_token |-> tok, token_expiry |-> exp,
                        granted |-> <<>>]

\* get_access_token(force_refresh) called at clock value t with cache (tok, exp).
get_access_token(force_refresh, tok, exp, t, resp, new) ==
    IF UseCached(force_refresh, tok, exp, t)
    THEN [sent |-> FALSE, now |-> t, jti |-> <<>>, kind |-> "cached",
          raised |-> "none", result |-> tok,
          access_token |-> tok, token_expiry |-> exp, granted |-> <<>>]
    ELSE Exchange(tok, exp, t, resp, new)

\* The token the endpoint issues next: the k-th request gets token k.
NextToken == token_requests + 1

\* The effect of a get_access_token outcome on the client and on the history.
ApplyAuth(a, force_refresh, t) ==
    /\ access_token' = a.access_token
    /\ token_expiry' = a.token_expiry
    /\ last_exchange' = IF a.granted # <<>> THEN a.granted ELSE last_exchange
    /\ token_requests' = IF a.sent THEN token_requests + 1 ELSE token_requests
    /\ last_jti' = IF a.sent THEN a.jti ELSE last_jti
    /\ authCall' = [called |-> TRUE, force_refresh |-> force_refresh, at |-> t,
                    cached_token |-> access_token, cached_expiry |-> token_expiry,
                    prior |-> last_exchange,
                    sent |-> IF a.sent THEN 1 ELSE 0, jti |-> a.jti,
                    prev_jti |-> last_jti,
                    raised |-> a.raised, result |-> a.result]

\* A caller invokes get_access_token(force_refresh) directly.
GetAccessToken(force_refresh, resp, maxTime) ==
    LET a == get_access_token(force_refresh, access_token, token_expiry, now,
                              resp, NextToken)
    IN  /\ a.sent => token_requests < MaxExchanges
        /\ a.now <= maxTime
        /\ now' = a.now
        /\ ApplyAuth(a, force_refresh, now)
        /\ UNCHANGED <<fhirVars, pipeVars>>

\* Time passes while the program does nothing.
Idle(d, maxTime) ==
    /\ call.status # "running"
    /\ now + d <= maxTime
    /\ now' = now + d
    /\ UNCHANGED <<authVars, fhirVars, pipeVars>>

-----------------------------------------------------------------------------
(* The remote resource API *)

\* page urls are 1..NPages
NPages == 3
\* the interpreter's limit on nested _make_request frames (CPython's recursion
\* limit, 1000 frames by default), scaled down
StackLimit == 3
\* pages requested by one pagination
MaxPageNum == 4

\* The url "" (a "next" link whose url is the empty string).
UrlEmpty == -1
\* The url of get_patient's request, {base_url}/Patient/{patient_id}.
PatientUrl == -2

PageUrls == 1..NPages
PageSizes == {0, 2}

\* A page's "next" link: <<>> when the page has no link with relation "next",
\* else <<u>> for the first such link, u being link.get("url"): a page url, ""
\* or None (the link has no "url").
Links == {<<>>} \cup { <<u>> : u \in PageUrls \cup {None, UrlEmpty} }

\* The entries of the page at url p, in the order the page lists them.
PageEntries(p) == [i \in 1..pages[p].size |-> <<p, i>>]

\* HTTP outcomes of a resource request: 200, 429, another error status (404,
\* 500), or no response at all (a connection error).
StatusOk == 200
StatusTooMany == 429
StatusNotFound == 404
StatusServerError == 500
NoResponse == 0
Statuses == {StatusOk, StatusTooMany, StatusNotFound, StatusServerError, NoResponse}

GetResponse(status, latency) == [status |-> status, latency |-> latency]

-----------------------------------------------------------------------------
(* EpicFHIRClient *)

\* `while url:` (line 109): None and "" are falsy.
UrlTruthy(u) == u # None /\ u # UrlEmpty

Call(op, status, url, page_num, all_entries, depth, raised, result) ==
    [op |-> op, status |-> status, url |-> url, page_num |-> page_num,
     all_entries |-> all_entries, depth |-> depth, raised |-> raised,
     result |-> result]

NoCall == Call("none", "idle", None, 0, <<>>, 0, "none", <<>>)

Raise(c, error) == [c EXCEPT !.status = "raised", !.raised = error]

\* Variants of the loop body: one that returns without the entries of the last
\* page, one that leaves the loop on a page without entries.
AfterPageMutDropLast(c, entries, link) ==
    LET all == c.all_entries \o entries
        url == IF link = <<>> THEN None ELSE link[1]
        page_num == IF link = <<>> THEN c.page_num ELSE c.page_num + 1
    IN  IF UrlTruthy(url)
        THEN [c EXCEPT !.url = url, !.page_num = page_num, !.all_entries = all,
                       !.depth = 1]
        ELSE [c EXCEPT !.status = "returned", !.url = url, !.page_num = page_num,
                       !.result = c.all_entries]

AfterPageMutStopOnEmpty(c, entries, link) ==
    LET all == c.all_entries \o entries
        url == IF link = <<>> \/ entries = <<>> THEN None ELSE link[1]
        page_num == IF link = <<>> THEN c.page_num ELSE c.page_num + 1
    IN  IF UrlTruthy(url)
        THEN [c EXCEPT !.url = url, !.page_num = page_num, !.all_entries = all,
                       !.depth = 1]
        ELSE [c EXCEPT !.status = "returned", !.url = url, !.page_num = page_num,
                       !.all_entries = all, !.result = all]

\* Lines 119-132 of _fetch_with_pagination, run on the page served at c.url,
\* with its entries and its "next" link: extend all_entries, take the first
\* "next" link, loop or return.
AfterPage(c, entries, link) ==
    LET all == c.all_entries \o entries
        url == IF link = <<>> THEN None ELSE link[1]
        page_num == IF link = <<>> THEN c.page_num ELSE c.page_num + 1
    IN  IF UrlTruthy(url)
        THEN [c EXCEPT !.url = url, !.page_num = page_num, !.all_entries = all,
                       !.depth = 1]
        ELSE [c EXCEPT !.status = "returned", !.url = url, !.page_num = page_num,
                       !.all_entries = all, !.result = all]

\* What the caller of _make_request does with the JSON returned.
AfterResponse(c) ==
    IF c.op = "paginate"
    THEN AfterPage(c, PageEntries(c.url), pages[c.url].next)
    ELSE [c EXCEPT !.status = "returned"]

\* A variant that also retries a 500.
RetriedMutServerError(status) == status \in {StatusTooMany, StatusServerError}

\* Lines 69-70 of _make_request: which statuses are retried.
Retried(status) == status = StatusTooMany

\* Lines 64-80 of _make_request for the response g to the request of frame
\* c.depth: return the JSON, retry in a nested frame after the 429 sleep, or
\* raise.  A nested call beyond the interpreter's frame limit raises
\* RecursionError.
AfterGet(c, g) ==
    CASE g.status = StatusOk -> AfterResponse(c)
      [] Retried(g.status) ->
            IF c.depth < StackLimit
            THEN [c EXCEPT !.depth = c.depth + 1]
            ELSE Raise(c, "RecursionError")
      [] g.status = NoResponse -> Raise(c, "RequestException")
      [] OTHER -> Raise(c, "HTTPError")

\* _wait_for_rate_limit (lines 39-42) at clock value t: the clock value after
\* the sleep, which becomes last_request_time.
WaitForRateLimit(t, last) ==
    LET elapsed == t - last
    IN  IF elapsed < MinRequestInterval
        THEN t + (MinRequestInterval - elapsed)
        ELSE t

\* get_patient (line 146): one request, not paginated.
GetPatient ==
    /\ call.status # "running"
    /\ call' = Call("request", "running", PatientUrl, 0, <<>>, 1, "none", <<>>)
    /\ sends' = <<>>
    /\ UNCHANGED <<now, authVars, last_request_time, pages, outbound, pipeVars>>

\* _fetch_with_pagination up to its loop (lines 96-107).
FetchWithPagination ==
    /\ call.status # "running"
    /\ call' = Call("paginate", "running", 1, 1, <<>>, 1, "none", <<>>)
    /\ sends' = <<>>
    /\ UNCHANGED <<now, authVars, last_request_time, pages, outbound, pipeVars>>

\* One frame of _make_request (lines 55-80) and what its caller does with the
\* outcome: the rate-limit wait, the token lookup (with the exchange answered by
\* aresp if the cache does not serve it), the GET answered by g, and then the
\* return, the retry after the 429 sleep, or the raise.
MakeRequest(aresp, g, maxTime) ==
    LET t1 == WaitForRateLimit(now, last_request_time)
        a == get_access_token(FALSE, access_token, token_expiry, t1, aresp,
                              NextToken)
        t2 == a.now
        t3 == t2 + g.latency
        exchange == IF a.sent
                    THEN <<[kind |-> "token", start |-> t1, end |-> t2,
                            token |-> None, granted |-> <<>>]>>
                    ELSE <<>>
        get == [kind |-> "get", start |-> t2, end |-> t3, token |-> a.result,
                granted |-> IF a.sent THEN a.granted
                            ELSE IF last_exchange # <<>> /\ last_exchange[1] = a.result
                                 THEN last_exchange ELSE <<>>]
    IN  /\ call.status = "running"
        /\ call.page_num <= MaxPageNum
        /\ a.sent => token_requests < MaxExchanges
        /\ last_request_time' = t1
        /\ ApplyAuth(a, FALSE, t1)
        /\ pages' = pages
        /\ UNCHANGED pipeVars
        /\ IF a.raised # "none"
           THEN /\ now' = t2
                /\ call' = Raise(call, a.raised)
                /\ sends' = sends
                /\ outbound' = [prev_end |-> outbound.last_end, calls |-> exchange,
                                last_end |-> t2]
           ELSE /\ now' = IF Retried(g.status) THEN t3 + RetryDelay ELSE t3
                /\ call' = AfterGet(call, g)
                /\ sends' = Append(sends, [url |-> call.url, status |-> g.status])
                /\ outbound' = [prev_end |-> outbound.last_end,
                                calls |-> Append(exchange, get), last_end |-> t3]
        /\ now' <= maxTime

-----------------------------------------------------------------------------
(* FHIREmbeddingPipeline: the collection and search *)

\* documents of one patient in the collection
DocsPerPatient == 2
\* the largest n_results asked for
MaxResults == 2

Patients == {"A", "B"}

\* The entries the collection may hold: each has an id and, in its metadata,
\* the patient_id it was indexed under.
StoreUniverse ==
    { [id |-> <<p, k>>, patient_id |-> p] : p \in Patients, k \in 1..DocsPerPatient }

\* The patient_id argument of search, an Optional[str]: <<>> is None, <<s>> the
\* string s.
PatientIdArgs == {<<>>} \cup { <<s>> : s \in Patients \cup {"", "C"} }

\* `if patient_id:` (line 238): None and "" are falsy.
PatientIdTruthy(pid) == pid # <<>> /\ pid[1] # ""

\* generate_embedding (lines 110-113): the client is stored as
\* self.openai_client (line 84) and read as self.opoenai_client (line 110), so
\* the attribute lookup raises AttributeError before any request is made.
generate_embedding(text) == [raised |-> "AttributeError", embedding |-> <<>>]

\* The where filter search builds (lines 237-239): <<>> is None (no filter),
\* <<p>> is {"patient_id": p}.
WhereFilter(patient_id) ==
    IF PatientIdTruthy(patient_id) THEN <<patient_id[1]>> ELSE <<>>

\* The entries of the collection that a where filter lets through.
Matching(st, where) ==
    IF where = <<>> THEN st ELSE { e \in st : e.patient_id = where[1] }

MinOf(a, b) == IF a < b THEN a ELSE b

\* collection.query (line 242): the n_results nearest of the matching entries,
\* or all of them when there are fewer.  Which entries are nearest depends on
\* the embeddings; every choice of that many matching entries is possible.
CollectionQuery(st, where, n_results) ==
    LET m == Matching(st, where)
    IN  { r \in SUBSET m : Cardinality(r) = MinOf(n_results, Cardinality(m)) }

SearchCall(called, query, n_results, patient_id, raised, results) ==
    [called |-> called, query |-> query, n_results |-> n_results,
     patient_id |-> patient_id, raised |-> raised, results |-> results]

NoSearch == SearchCall(FALSE, "", 0, <<>>, "none", {})

\* search (lines 234-243)
Search(query, n_results, patient_id) ==
    LET e == generate_embedding(query)
    IN  /\ IF e.raised # "none"
           THEN searchCall' = SearchCall(TRUE, query, n_results, patient_id,
                                         e.raised, {})
           ELSE \E r \in CollectionQuery(store, WhereFilter(patient_id), n_results) :
                   searchCall' = SearchCall(TRUE, query, n_results, patient_id,
                                            "none", r)
        /\ UNCHANGED <<now, authVars, fhirVars, store, textCall, indexCall, ingest>>

-----------------------------------------------------------------------------
(* FHIR resources and FHIRDocumentProcessor *)

\* An optional field of a JSON object: <<>> when the key is absent, <<v>> when
\* it is present with value v.  dict.get(key, default):
Get(field, default) == IF field = <<>> THEN default ELSE field[1]

\* A JSON list is a sequence.  list[0] raises IndexError on an empty list.
NoCoding == [display |-> <<>>]
NoCode == [text |-> <<>>, coding |-> <<>>]
NoText == [text |-> <<>>]
NoQuantity == [value |-> <<>>, unit |-> <<>>]

\* process_patient (lines 29-33)
process_patient(patient) ==
    LET names == Get(patient.name, <<NoText>>)
    IN  IF names = <<>>
        THEN [raised |-> "IndexError", text |-> <<>>]
        ELSE [raised |-> "none",
              text |-> <<"Patient", Get(names[1].text, "Unknown"),
                         "Gender", Get(patient.gender, "Unknown"),
                         "Birth Date", Get(patient.birthDate, "Unknown")>>]

\* process_conditions (lines 40-52)
process_conditions(condition) ==
    LET codings == Get(Get(condition.code, NoCode).coding, <<NoCoding>>)
    IN  IF codings = <<>>
        THEN [raised |-> "IndexError", text |-> <<>>]
        ELSE [raised |-> "none",
              text |-> <<"Condition", Get(codings[1].display, "Unknown Condition"),
                         "Status", Get(Get(condition.clinicalStatus, NoText).text,
                                       "Unknown Status"),
                         "Onset Date", Get(condition.onsetDateTime,
                                           "Unknown Onset Date")>>]

\* Python truthiness of a quantity's value or unit: 0 and "" are falsy.
ValueTruthy(v) == v \notin {"0", ""}

\* process_observation (lines 59-75)
process_observation(observation) ==
    LET codings == Get(Get(observation.code, NoCode).coding, <<NoCoding>>)
        quantity == Get(observation.valueQuantity, NoQuantity)
        value == Get(quantity.value, "Unknown Value")
        unit == Get(quantity.unit, "")
        value_text == IF ValueTruthy(value) /\ ValueTruthy(unit)
                      THEN <<value, unit>>
                      ELSE <<Get(observation.valueString, "No value")>>
    IN  IF codings = <<>>
        THEN [raised |-> "IndexError", text |-> <<>>]
        ELSE [raised |-> "none",
              text |-> <<"Observation",
                         Get(codings[1].display, "Unknown Observation"),
                         "Value">> \o value_text \o
                       <<"Date", Get(observation.effectiveDateTime, "Unknown Date")>>]

\* A variant in which FHIRDocumentProcessor has the method.
process_medicationMutDefined(medication) ==
    [raised |-> "none", text |-> <<"Medication">>]

\* self.processor.process_medication (line 168): FHIRDocumentProcessor defines
\* process_patient, process_conditions and process_observation only, so the
\* attribute lookup raises AttributeError.
process_medication(medication) ==
    [raised |-> "AttributeError", text |-> <<>>]

-----------------------------------------------------------------------------
(* FHIREmbeddingPipeline.index_patient_data *)

\* observations[:50]
ObsSampleLimit == 50
\* if i % 10 == 0
EmbedEvery == 10

\* A string with "_" in it is the sequence of its parts: "A_condition_c1" is
\* <<"A", "condition", "c1">>, and an f-string that joins with "_" concatenates.
\* The metadata of a condition, medication or observation (lines 155-162,
\* 172-179, 192-199); its timestamp is datetime.now(), the local clock.
Meta(patient_id, resource_type, resource_id) ==
    [patient_id |-> patient_id, resource_type |-> resource_type,
     resource_id |-> resource_id, timestamp |-> [clock |-> "local", at |-> now]]

\* The locals of index_patient_data: the three lists, the loop variables idx and
\* medication (<<>> while unbound), and where it stands.
Locals(documents, metadatas, ids) ==
    [raised |-> "none", stage |-> "text", documents |-> documents,
     metadatas |-> metadatas, ids |-> ids, idx |-> <<>>, medication |-> <<>>,
     embeddings |-> <<>>]

Fail(s, error, stage) == [s EXCEPT !.raised = error, !.stage = stage]

\* Lines 137-146: the patient document.  Its metadata has "type", no
\* resource_type or resource_id, and a timestamp taken with datetime.utcnow();
\* its id is "{patient_id}_patient".
PatientDocument(patient_id, patient) ==
    LET t == process_patient(patient)
    IN  IF t.raised # "none"
        THEN Fail(Locals(<<>>, <<>>, <<>>), t.raised, "text")
        ELSE Locals(<<t.text>>,
                    <<[patient_id |-> patient_id, type |-> "patient",
                       timestamp |-> [clock |-> "utc", at |-> now]]>>,
                    <<<<patient_id, "patient">>>>)

\* Lines 150-163: the loop over the conditions still to process, idx being the
\* index of the first of them.
RECURSIVE ConditionLoop(_, _, _, _)
ConditionLoop(s, patient_id, conditions, idx) ==
    IF conditions = <<>> \/ s.raised # "none" THEN s
    ELSE LET t == process_conditions(Head(conditions))
             condition_id == Get(Head(conditions).id, <<"condition", ToString(idx)>>)
         IN  IF t.raised # "none"
             THEN Fail([s EXCEPT !.idx = <<idx>>], t.raised, "text")
             ELSE ConditionLoop(
                     [s EXCEPT !.idx = <<idx>>,
                               !.documents = Append(@, t.text),
                               !.metadatas = Append(@, Meta(patient_id, "Condition",
                                                            condition_id)),
                               !.ids = Append(@, <<patient_id, "condition">>
                                                 \o condition_id)],
                     patient_id, Tail(conditions), idx + 1)

\* Lines 167-169: the loop over the medications, which only appends the text.
RECURSIVE MedicationLoop(_, _, _)
MedicationLoop(s, medications, idx) ==
    IF medications = <<>> \/ s.raised # "none" THEN s
    ELSE LET t == process_medication(Head(medications))
             bound == [s EXCEPT !.idx = <<idx>>, !.medication = <<Head(medications)>>]
         IN  IF t.raised # "none"
             THEN Fail(bound, t.raised, "text")
             ELSE MedicationLoop([bound EXCEPT !.documents = Append(@, t.text)],
                                 Tail(medications), idx + 1)

\* Lines 171-180, after the loop (they are not indented into it): one metadata
\* and one id, for the medication the loop bound last.  With no medication the
\* name is unbound and reading it raises UnboundLocalError.
AfterMedicationLoop(s, patient_id) ==
    IF s.raised # "none" THEN s
    ELSE IF s.medication = <<>>
    THEN Fail(s, "UnboundLocalError", "text")
    ELSE LET med_id == Get(s.medication[1].id, <<"medication", ToString(s.idx[1])>>)
         IN  [s EXCEPT !.metadatas = Append(@, Meta(patient_id, "MedicationRequest",
                                                    med_id)),
                       !.ids = Append(@, <<patient_id, "medication">> \o med_id)]

\* Lines 183-200: the loop over the first 50 observations.
RECURSIVE ObservationLoop(_, _, _, _)
ObservationLoop(s, patient_id, obs_sample, idx) ==
    IF obs_sample = <<>> \/ s.raised # "none" THEN s
    ELSE LET t == process_observation(Head(obs_sample))
             obs_id == Get(Head(obs_sample).id, <<"observation", ToString(idx)>>)
         IN  IF t.raised # "none"
             THEN Fail([s EXCEPT !.idx = <<idx>>], t.raised, "text")
             ELSE ObservationLoop(
                     [s EXCEPT !.idx = <<idx>>,
                               !.documents = Append(@, t.text),
                               !.metadatas = Append(@, Meta(patient_id, "Observation",
                                                            obs_id)),
                               !.ids = Append(@, <<patient_id, "observation">>
                                                 \o obs_id)],
                     patient_id, Tail(obs_sample), idx + 1)

\* Lines 204-209: an embedding for every tenth document only, i being the index
\* of the first document still to look at.
RECURSIVE EmbeddingLoop(_, _, _)
EmbeddingLoop(s, documents, i) ==
    IF documents = <<>> \/ s.raised # "none" THEN s
    ELSE IF i % EmbedEvery = 0
    THEN LET e == generate_embedding(Head(documents))
         IN  IF e.raised # "none"
             THEN Fail(s, e.raised, "embed")
             ELSE EmbeddingLoop([s EXCEPT !.embeddings = Append(@, e.embedding)],
                                Tail(documents), i + 1)
    ELSE EmbeddingLoop(s, Tail(documents), i + 1)

Range(f) == { f[i] : i \in DOMAIN f }

\* collection.add (lines 212-214): the four lists must have one length and the
\* ids must differ; an id the collection already holds keeps its entry (add
\* does not replace).
CollectionAdd(st, documents, embeddings, metadatas, ids) ==
    IF Len(embeddings) # Len(ids) \/ Len(documents) # Len(ids)
       \/ Len(metadatas) # Len(ids)
    THEN [raised |-> "ValueError", store |-> st]
    ELSE IF Cardinality(Range(ids)) # Len(ids)
    THEN [raised |-> "DuplicateIDError", store |-> st]
    ELSE [raised |-> "none",
          store |-> st \cup
              { [id |-> ids[i], patient_id |-> metadatas[i].patient_id,
                 text |-> documents[i], embedding |-> embeddings[i],
                 metadata |-> metadatas[i]] :
                i \in { j \in DOMAIN ids : \A e \in st : e.id # ids[j] } }]

Take(s, n) == SubSeq(s, 1, MinOf(Len(s), n))

\* Lines 125-209: the lists index_patient_data builds before it touches the
\* collection.
BuildLists(patient_data) ==
    LET patient_id == patient_data.patient_id
        s1 == PatientDocument(patient_id, patient_data.patient)
        s2 == ConditionLoop(s1, patient_id, patient_data.conditions, 0)
        s3 == MedicationLoop(s2, patient_data.medications, 0)
        s4 == AfterMedicationLoop(s3, patient_id)
        s5 == ObservationLoop(s4, patient_id,
                              Take(patient_data.observations, ObsSampleLimit), 0)
    IN  EmbeddingLoop(s5, s5.documents, 0)

Outcome(s, st, returned) ==
    [raised |-> s.raised, stage |-> s.stage, documents |-> s.documents,
     metadatas |-> s.metadatas, ids |-> s.ids, embeddings |-> s.embeddings,
     store |-> st, returned |-> returned]

\* A variant that adds what was built to the collection even when building
\* raised (the add placed in a finally block).
AddToCollectionMutOnFailure(st, s) ==
    LET n == MinOf(Len(s.ids), Len(s.documents))
    IN  Outcome(s, st \cup { [id |-> s.ids[i],
                              patient_id |-> s.metadatas[i].patient_id,
                              text |-> s.documents[i], embedding |-> <<>>,
                              metadata |-> s.metadatas[i]] : i \in 1..n },
                IF s.raised = "none" THEN <<Len(s.documents)>> ELSE <<>>)

\* Lines 211-220: the single write, reached only when building raised nothing,
\* and the count returned (<<>> when index_patient_data raised).
AddToCollection(st, s) ==
    LET added == CollectionAdd(st, s.documents, s.embeddings, s.metadatas, s.ids)
    IN  IF s.raised # "none" THEN Outcome(s, st, <<>>)
        ELSE IF added.raised # "none"
        THEN Outcome(Fail(s, added.raised, "write"), st, <<>>)
        ELSE Outcome([s EXCEPT !.stage = "done"], added.store, <<Len(s.documents)>>)

\* index_patient_data (lines 125-220) on the collection st: what it raised and
\* where, the lists it had built, the collection afterwards and the count it
\* returned.
index_patient_data(st, patient_data) == AddToCollection(st, BuildLists(patient_data))

\* The record of an index_patient_data call: the run number, the bundle, the
\* outcome, the collection before the call and, from the second run on, the
\* bundle and outcome of the run before.
IndexCall(runs, patient_data, out, before, prev) ==
    [runs |-> runs, patient_data |-> patient_data, raised |-> out.raised,
     stage |-> out.stage, documents |-> out.documents, ids |-> out.ids,
     metadatas |-> out.metadatas, embeddings |-> out.embeddings,
     returned |-> out.returned, before |-> before, prev |-> prev]

NoIndexCall ==
    [runs |-> 0, patient_data |-> <<>>, raised |-> "none", stage |-> "none",
     documents |-> <<>>, ids |-> <<>>, metadatas |-> <<>>, embeddings |-> <<>>,
     returned |-> <<>>, before |-> {}, prev |-> <<>>]

\* The effect of index_patient_data(patient_data) on the collection and on the
\* history.
ApplyIndex(patient_data) ==
    LET out == index_patient_data(store, patient_data)
    IN  /\ store' = out.store
        /\ indexCall' = IndexCall(indexCall.runs + 1, patient_data, out, store,
                                  IF indexCall.runs = 0 THEN <<>>
                                  ELSE <<[patient_data |-> indexCall.patient_data,
                                          raised |-> indexCall.raised,
                                          store |-> store]>>)

\* A caller invokes index_patient_data(patient_data) on a bundle it holds.
IndexPatientData(patient_data) ==
    /\ ApplyIndex(patient_data)
    /\ UNCHANGED <<now, authVars, fhirVars, searchCall, textCall, ingest>>

TextCall(called, kind, resource, out) ==
    [called |-> called, kind |-> kind, resource |-> resource,
     raised |-> out.raised, text |-> out.text]

NoTextCall == TextCall(FALSE, "none", <<>>, [raised |-> "none", text |-> <<>>])

\* The text building index_patient_data asks of the processor for one resource
\* (lines 137, 151, 168, 188).
ProcessResource(kind, resource) ==
    /\ textCall' = TextCall(TRUE, kind, resource,
                            CASE kind = "patient" -> process_patient(resource)
                              [] kind = "condition" -> process_conditions(resource)
                              [] kind = "medication" -> process_medication(resource)
                              [] OTHER -> process_observation(resource))
    /\ UNCHANGED <<now, authVars, fhirVars, store, searchCall, indexCall, ingest>>

-----------------------------------------------------------------------------
(* Initial states *)

NoAuthCall ==
    [called |-> FALSE, force_refresh |-> FALSE, at |-> None, cached_token |-> None,
     cached_expiry |-> None, prior |-> <<>>, sent |-> 0, jti |-> <<>>, prev_jti |-> <<>>,
     raised |-> "none", result |-> None]

\* EpicAuthClient.__init__ (lines 40-42)
InitAuth ==
    /\ access_token = None
    /\ token_expiry = None
    /\ last_exchange = <<>>
    /\ token_requests = 0
    /\ last_jti = <<>>
    /\ authCall = NoAuthCall

NoOutbound == [prev_end |-> None, calls |-> <<>>, last_end |-> None]

\* EpicFHIRClient.__init__ (lines 30-31), no operation running
InitFhir ==
    /\ last_request_time = 0
    /\ call = NoCall
    /\ sends = <<>>
    /\ outbound = NoOutbound

InitFhirIdle ==
    /\ InitFhir
    /\ pages = <<>>

\* No ingestion running: main has not been started.
NoIngest ==
    [stage |-> "idle", patients |-> <<>>, patient_id |-> "", fetched |-> <<>>,
     raised |-> "none", failed_in |-> "none", completed |-> <<>>]

InitIngestIdle ==
    /\ textCall = NoTextCall
    /\ indexCall = NoIndexCall
    /\ ingest = NoIngest

InitPipeIdle ==
    /\ store = {}
    /\ searchCall = NoSearch
    /\ InitIngestIdle

-----------------------------------------------------------------------------
(* The token client on its own: direct get_access_token calls *)

\* the clock value at which the observation ends
AuthHorizon == 10000
AuthIdle == {3000}
AuthLatency == {0, 10}
AuthExpiresIn == {0, 3000, 6000, 6001}

AuthResponses ==
    { AuthResponse("ok", TRUE, e, l) : e \in AuthExpiresIn, l \in AuthLatency }
    \cup { AuthResponse(k, FALSE, 0, l) : k \in AuthKinds, l \in AuthLatency }

InitAuthOnly ==
    /\ now = StartTime
    /\ InitAuth /\ InitFhirIdle /\ InitPipeIdle

NextAuth ==
    \/ \E f \in BOOLEAN, r \in AuthResponses : GetAccessToken(f, r, AuthHorizon)
    \/ \E d \in AuthIdle : Idle(d, AuthHorizon)

SpecAuth == InitAuthOnly /\ [][NextAuth]_vars

-----------------------------------------------------------------------------
(* Pagination: one EpicFHIRClient fetching a paginated collection *)

PageConfigs == [PageUrls -> [size : PageSizes, next : Links]]

\* The pages that following "next" links from page p visits.
RECURSIVE Visited(_, _, _)
Visited(cfg, p, seen) ==
    IF p \in seen THEN seen
    ELSE LET l == cfg[p].next
         IN  IF l # <<>> /\ l[1] \in PageUrls
             THEN Visited(cfg, l[1], seen \cup {p})
             ELSE seen \cup {p}

\* One page graph of each shape: the pages are numbered in the order in which
\* the pagination first visits them (a link leads to the next new page or back
\* to a page already visited), and a page it never visits is empty.
Canonical(cfg) ==
    LET seen == Visited(cfg, 1, {})
    IN  /\ \A p \in seen :
              LET l == cfg[p].next
              IN  (l # <<>> /\ l[1] \in PageUrls) => l[1] <= p + 1
        /\ \A p \in PageUrls \ seen : cfg[p] = [size |-> 0, next |-> <<>>]

\* the clock value at which the observation ends
PagesHorizon == 100
PagesAuthResponses ==
    {AuthResponse("ok", FALSE, 0, 0), AuthResponse("http_error", FALSE, 0, 0)}
PagesGetResponses == { GetResponse(st, 0) : st \in Statuses }

InitPages ==
    /\ now = StartTime
    /\ InitAuth /\ InitFhir /\ InitPipeIdle
    /\ pages \in PageConfigs
    /\ Canonical(pages)

\* The client runs one pagination.
NextPages ==
    \/ call.op = "none" /\ FetchWithPagination
    \/ \E a \in PagesAuthResponses, g \in PagesGetResponses :
          MakeRequest(a, g, PagesHorizon)

SpecPages == InitPages /\ [][NextPages]_vars

-----------------------------------------------------------------------------
(* Timing: one EpicFHIRClient making single requests *)

\* the clock value at which the observation ends
RateHorizon == 30
RateAuthResponses ==
    { AuthResponse("ok", TRUE, e, l) : e \in {0, 1, 3002}, l \in {0, 1} }
    \cup { AuthResponse(k, FALSE, 0, 0) : k \in AuthKinds \ {"ok"} }
RateGetResponses ==
    { GetResponse(st, l) : st \in {StatusOk, StatusTooMany, StatusServerError},
                           l \in {0, 1} }

InitRate ==
    /\ now = StartTime
    /\ InitAuth /\ InitFhir /\ InitPipeIdle
    /\ pages = [p \in PageUrls |-> [size |-> 0, next |-> <<>>]]

NextRate ==
    \/ GetPatient
    \/ \E a \in RateAuthResponses, g \in RateGetResponses :
          MakeRequest(a, g, RateHorizon)

SpecRate == InitRate /\ [][NextRate]_vars

-----------------------------------------------------------------------------
(* Retrieval: searches against a collection that already holds documents *)

Queries == {"medications", "conditions"}

InitSearch ==
    /\ now = StartTime
    /\ InitAuth /\ InitFhirIdle
    /\ store \in SUBSET StoreUniverse
    /\ searchCall = NoSearch
    /\ InitIngestIdle

NextSearch ==
    \E q \in Queries, n \in 1..MaxResults, pid \in PatientIdArgs : Search(q, n, pid)

SpecSearch == InitSearch /\ [][NextSearch]_vars

-----------------------------------------------------------------------------
(* Text building: the processor applied to single resources *)

\* The "name" of a Patient: absent, an empty list, one name without "text",
\* one name with "text".
NameFields == {<<>>, <<<<>>>>, <<<<NoText>>>>, <<<<[text |-> <<"Ann Lee">>]>>>>}

\* The "code" of a Condition or Observation: absent, without "coding", with an
\* empty coding list, with one coding without "display", with one coding, and
\* with a "text" of its own beside each of these.
CodeFields ==
    {<<>>, <<NoCode>>, <<[text |-> <<>>, coding |-> <<<<>>>>]>>,
     <<[text |-> <<>>, coding |-> <<<<NoCoding>>>>]>>,
     <<[text |-> <<"Asthma">>, coding |-> <<<<[display |-> <<"Asthma">>]>>>>]>>,
     <<[text |-> <<"wheezing">>, coding |-> <<>>]>>,
     <<[text |-> <<"wheezing">>, coding |-> <<<<NoCoding>>>>]>>,
     <<[text |-> <<"wheezing">>, coding |-> <<<<[display |-> <<"Asthma">>]>>>>]>>}

QuantityFields ==
    {<<>>, <<NoQuantity>>, <<[value |-> <<"0">>, unit |-> <<"mg">>]>>,
     <<[value |-> <<"7">>, unit |-> <<>>]>>, <<[value |-> <<"7">>, unit |-> <<"mg">>]>>}

PatientResources ==
    { [id |-> <<<<"p1">>>>, name |-> n, gender |-> g, birthDate |-> b] :
        n \in NameFields, g \in {<<>>, <<"female">>}, b \in {<<>>, <<"1980-01-01">>} }

ConditionResources ==
    { [id |-> <<<<"c1">>>>, code |-> c, onsetDateTime |-> o, clinicalStatus |-> st] :
        c \in CodeFields, o \in {<<>>, <<"2020-05-01">>},
        st \in {<<>>, <<NoText>>, <<[text |-> <<"active">>]>>} }

MedicationResources == { [id |-> i] : i \in {<<>>, <<<<"m1">>>>} }

ObservationResources ==
    { [id |-> <<<<"o1">>>>, code |-> c, valueQuantity |-> q, valueString |-> v,
       effectiveDateTime |-> d] :
        c \in CodeFields, q \in QuantityFields, v \in {<<>>, <<"positive">>},
        d \in {<<>>, <<"2021-03-04">>} }

InitText ==
    /\ now = StartTime
    /\ InitAuth /\ InitFhirIdle /\ InitPipeIdle

NextText ==
    \/ \E r \in PatientResources : ProcessResource("patient", r)
    \/ \E r \in ConditionResources : ProcessResource("condition", r)
    \/ \E r \in MedicationResources : ProcessResource("medication", r)
    \/ \E r \in ObservationResources : ProcessResource("observation", r)

SpecText == InitText /\ [][NextText]_vars

-----------------------------------------------------------------------------
(* Indexing: index_patient_data applied to bundles, once and again *)

\* resources of one type in a bundle
MaxResources == 2

RECURSIVE SeqsUpTo(_, _)
SeqsUpTo(S, n) ==
    IF n = 0 THEN {<<>>}
    ELSE LET shorter == SeqsUpTo(S, n - 1)
         IN  shorter \cup { Append(q, x) : q \in shorter, x \in S }

Absent == [id |-> <<>>, code |-> <<>>, onsetDateTime |-> <<>>, clinicalStatus |-> <<>>]

BundlePatients ==
    { [id |-> <<<<"p1">>>>, name |-> n, gender |-> <<>>, birthDate |-> <<>>] :
        n \in NameFields }

\* A condition without any field, a complete one, one whose id reads
\* "condition_0", one with an empty coding list.
BundleConditions ==
    { Absent,
      [Absent EXCEPT !.id = <<<<"c1">>>>,
                     !.code = <<[text |-> <<>>,
                                 coding |-> <<<<[display |-> <<"Asthma">>]>>>>]>>,
                     !.onsetDateTime = <<"2020-05-01">>],
      [Absent EXCEPT !.id = <<<<"condition", "0">>>>],
      [Absent EXCEPT !.id = <<<<"c2">>>>,
                     !.code = <<[text |-> <<>>, coding |-> <<<<>>>>]>>] }

BundleMedications == { [id |-> <<<<"m1">>>>] }

BundleObservations ==
    { [id |-> <<>>, code |-> <<>>, valueQuantity |-> <<>>, valueString |-> <<>>,
       effectiveDateTime |-> <<>>] }

Bundles ==
    { [patient_id |-> pid, patient |-> p, conditions |-> c, medications |-> m,
       observations |-> o] :
        pid \in Patients, p \in BundlePatients,
        c \in SeqsUpTo(BundleConditions, MaxResources),
        m \in SeqsUpTo(BundleMedications, MaxResources),
        o \in SeqsUpTo(BundleObservations, MaxResources) }

\* The same bundle fetched again after the record changed at the source.
Revised(patient_data) ==
    [patient_data EXCEPT !.patient.gender = <<"female">>]

InitIndex ==
    /\ now = StartTime
    /\ InitAuth /\ InitFhirIdle /\ InitPipeIdle

\* A bundle is indexed, and then indexed again, as it was or revised.
NextIndex ==
    \/ \E b \in Bundles : indexCall.runs = 0 /\ IndexPatientData(b)
    \/ /\ indexCall.runs = 1
       /\ \E b \in {indexCall.patient_data, Revised(indexCall.patient_data)} :
             IndexPatientData(b)

SpecIndex == InitIndex /\ [][NextIndex]_vars

-----------------------------------------------------------------------------
(* Claims about the token cache *)

\* The last call was get_access_token(force_refresh=False) made after a
\* successful exchange <<token, T, E>>.
UnforcedAfterExchange ==
    /\ authCall.called /\ ~authCall.force_refresh
    /\ authCall.prior # <<>>

\* C1: after a successful exchange at time T that returned expires_in = E, a
\* call of get_access_token(force_refresh=False) made before T + E - 5 min
\* returns the cached token and sends no token request, and a call made at or
\* after T + E - 5 min sends exactly one token request.
C1_ReuseUntilMargin ==
    UnforcedAfterExchange =>
        LET T == authCall.prior[2]
            E == authCall.prior[3]
        IN  IF authCall.at < T + E - Margin
            THEN /\ authCall.sent = 0
                 /\ authCall.raised = "none"
                 /\ authCall.result = authCall.cached_token
            ELSE authCall.sent = 1

\* A call made exactly at T + E - 5 min, for a lifetime longer than the margin,
\* that refreshed the token.
C1_Witness ==
    /\ UnforcedAfterExchange
    /\ authCall.prior[3] > Margin
    /\ authCall.at = authCall.prior[2] + authCall.prior[3] - Margin
    /\ authCall.sent = 1
    /\ authCall.raised = "none"

\* A call made one tick before T + E - 5 min that was served from the cache.
C1_WitnessCached ==
    /\ UnforcedAfterExchange
    /\ authCall.at = authCall.prior[2] + authCall.prior[3] - Margin - 1
    /\ authCall.sent = 0

\* C20: get_access_token(force_refresh=True) sends a new token request whatever
\* the cache holds (nothing, a valid token, an expired one), and when the
\* exchange succeeds it returns the token of that exchange and the cache holds
\* that token with its expiry.
C20_ForceRefreshExchanges ==
    (authCall.called /\ authCall.force_refresh) =>
        /\ authCall.sent = 1
        /\ authCall.raised = "none" =>
              /\ authCall.result = token_requests
              /\ access_token = authCall.result
              /\ last_exchange[1] = authCall.result
              /\ token_expiry = last_exchange[2] + last_exchange[3]

\* A forced call made while the cache held a token that was still valid, which
\* returned a new token.
C20_Witness ==
    /\ authCall.called /\ authCall.force_refresh
    /\ Truthy(authCall.cached_token) /\ Truthy(authCall.cached_expiry)
    /\ authCall.at < authCall.cached_expiry - Margin
    /\ authCall.sent = 1
    /\ authCall.raised = "none"
    /\ authCall.result # authCall.cached_token

\* C21 (as claimed): any two assertions a client builds carry different jti
\* values, also when built within one clock second: here, the assertion of a
\* token request and the one of the request before it.
C21_JtiUnique ==
    (authCall.called /\ authCall.sent = 1 /\ authCall.prev_jti # <<>>) =>
        authCall.jti # authCall.prev_jti

\* C27 (as claimed): access_token and token_expiry are both unset or both set
\* from one successful exchange, and a get_access_token call that raised has
\* left both as they were before the call.
C27_CacheConsistent ==
    /\ Truthy(access_token) <=> Truthy(token_expiry)
    /\ Truthy(access_token) =>
          /\ last_exchange # <<>>
          /\ access_token = last_exchange[1]
          /\ token_expiry = last_exchange[2] + last_exchange[3]
    /\ (authCall.called /\ authCall.raised # "none") =>
          /\ access_token = authCall.cached_token
          /\ token_expiry = authCall.cached_expiry

-----------------------------------------------------------------------------
(* Claims about resource requests and their timing *)

\* The resource request of the last _make_request frame, if it sent one.
SentGets == { i \in DOMAIN outbound.calls : outbound.calls[i].kind = "get" }

\* A token granted as <<token, T, E>> is expired at clock value t.
Expired(granted, t) == t >= granted[2] + granted[3]

\* C2 (as claimed): every resource request carries a bearer token that has not
\* expired when the request is sent, whatever lifetime the token endpoint
\* stated for it.
C2_TokenNeverExpired ==
    \A i \in SentGets :
        LET c == outbound.calls[i]
        IN  c.granted # <<>> => ~Expired(c.granted, c.start)

\* C2 (amended): every resource request whose token was granted with a positive
\* lifetime carries a token that has not expired when the request is sent.
C2_PositiveLifetimeNotExpired ==
    \A i \in SentGets :
        LET c == outbound.calls[i]
        IN  (c.granted # <<>> /\ c.granted[3] > 0) => ~Expired(c.granted, c.start)

\* A resource request sent with a token taken from the cache some time after
\* the exchange that granted it.
C2_Witness ==
    /\ Len(outbound.calls) = 1
    /\ SentGets = {1}
    /\ outbound.calls[1].granted # <<>>
    /\ outbound.calls[1].granted[3] > Margin
    /\ outbound.calls[1].start > outbound.calls[1].granted[2]

\* C9 (as claimed): of any two consecutive outbound calls of the client
\* (resource requests, their retries, token exchanges), the later starts at
\* least min_request_interval after the earlier ended.
C9_IntervalBetweenCalls ==
    LET cs == outbound.calls
    IN  /\ (outbound.prev_end # None /\ Len(cs) >= 1) =>
               cs[1].start - outbound.prev_end >= MinRequestInterval
        /\ Len(cs) = 2 => cs[2].start - cs[1].end >= MinRequestInterval

-----------------------------------------------------------------------------
(* Claims about pagination and retries *)

RECURSIVE ConcatPages(_)
\* The entries of the pages of a sequence of page urls, in order.
ConcatPages(urls) ==
    IF urls = <<>> THEN <<>>
    ELSE PageEntries(Head(urls)) \o ConcatPages(Tail(urls))

RECURSIVE WalkFrom(_, _, _)
\* The pages from page p on, following each "next" link that has a page url,
\* at most `fuel` of them.
WalkFrom(cfg, p, fuel) ==
    IF fuel = 0 THEN <<>>
    ELSE LET l == cfg[p].next
         IN  IF l # <<>> /\ l[1] \in PageUrls
             THEN <<p>> \o WalkFrom(cfg, l[1], fuel - 1)
             ELSE <<p>>

Walk == WalkFrom(pages, 1, NPages + 1)

\* The pages form a finite chain that ends with a page without a "next" link.
ProperChain ==
    /\ Len(Walk) <= NPages
    /\ pages[Last(Walk)].next = <<>>

Paginating == call.op = "paginate"

\* The urls of the requests answered with 200, in the order sent.
RECURSIVE OkUrls(_)
OkUrls(sn) ==
    IF sn = <<>> THEN <<>>
    ELSE IF Head(sn).status = StatusOk
         THEN <<Head(sn).url>> \o OkUrls(Tail(sn))
         ELSE OkUrls(Tail(sn))

\* C3: for a finite chain of pages that ends with a page without a "next" link,
\* _fetch_with_pagination returns the concatenation of the entries of all the
\* pages in page order, each page contributing once.
C3_ReturnsConcatenation ==
    (Paginating /\ call.status = "returned" /\ ProperChain) =>
        call.result = ConcatPages(Walk)

\* A chain of three pages of two entries each, fetched to the end.
C3_Witness ==
    /\ Paginating /\ call.status = "returned" /\ ProperChain
    /\ Len(Walk) = 3
    /\ Len(call.result) = 6

\* C4 (as claimed): a page request answered with 429 is sent again, once for
\* each 429, and the result returned is the one of a run without any 429.
C4_RetryOncePer429 ==
    Paginating =>
        /\ \A i \in DOMAIN sends :
              sends[i].status = StatusTooMany =>
                 IF i < Len(sends)
                 THEN sends[i + 1].url = sends[i].url
                 ELSE call.status = "running"
        /\ call.status = "returned" => call.result = ConcatPages(Walk)

\* C5: a resource request answered with an error status other than 429 is not
\* sent again: _make_request raises HTTPError right after that attempt.
C5_OtherErrorsNotRetried ==
    \A i \in DOMAIN sends :
        sends[i].status \in {StatusNotFound, StatusServerError} =>
            /\ i = Len(sends)
            /\ call.status = "raised"
            /\ call.raised = "HTTPError"

\* A 500 on the second page, after the first page was fetched.
C5_Witness ==
    /\ Paginating
    /\ Len(sends) = 2
    /\ sends[1].status = StatusOk
    /\ sends[2].status = StatusServerError
    /\ call.status = "raised"

\* C6 (as claimed): a 429 never surfaces to the caller: an operation whose last
\* response was a 429 does not raise (unless the token exchange of the retry
\* failed), however many 429s came in a row.
C6_429NeverSurfaces ==
    (call.status = "raised" /\ sends # <<>> /\ Last(sends).status = StatusTooMany)
        => authCall.raised # "none"

\* The page of the i-th request has a "next" link that is malformed: without a
\* url, with an empty url, or leading back to a page already fetched.
MalformedNext(i) ==
    LET l == pages[sends[i].url].next
    IN  /\ l # <<>>
        /\ \/ ~UrlTruthy(l[1])
           \/ \E j \in 1..i : sends[j].status = StatusOk /\ sends[j].url = l[1]

\* C7 (as claimed): a page whose "next" link is malformed ends the pagination,
\* which returns the entries gathered so far.
C7_MalformedNextEnds ==
    Paginating =>
        \A i \in DOMAIN sends :
            (sends[i].status = StatusOk /\ MalformedNext(i)) =>
                /\ i = Len(sends)
                /\ call.status = "returned"
                /\ call.result = ConcatPages(OkUrls(sends))

\* C8 (as claimed): a page without entries ends the pagination, with or without
\* a "next" link.
C8_EmptyPageEnds ==
    Paginating =>
        \A i \in DOMAIN sends :
            (sends[i].status = StatusOk /\ pages[sends[i].url].size = 0) =>
                /\ i = Len(sends)
                /\ call.status = "returned"

\* The last response was a 200 carrying no entries.
LastPageEmpty ==
    /\ Paginating /\ sends # <<>>
    /\ Last(sends).status = StatusOk
    /\ pages[Last(sends).url].size = 0

\* C8 (amended): a page without entries adds nothing to the result; it ends the
\* pagination when it has no "next" link with a usable url, and otherwise the
\* page of its "next" link is requested next.
C8_EmptyPageFollowsLink ==
    LastPageEmpty =>
        LET l == pages[Last(sends).url].next
        IN  /\ call.all_entries = ConcatPages(OkUrls(SubSeq(sends, 1, Len(sends) - 1)))
            /\ IF l # <<>> /\ UrlTruthy(l[1])
               THEN call.status # "returned" /\ call.url = l[1]
               ELSE call.status = "returned" /\ call.result = call.all_entries

\* An empty first page whose "next" link leads to the second page, which the
\* pagination is about to request.
C8_Witness ==
    /\ LastPageEmpty
    /\ Len(sends) = 1
    /\ pages[1].next = <<2>>
    /\ call.status = "running"
    /\ call.url = 2

-----------------------------------------------------------------------------
(* Claims about retrieval *)

\* C10 (as claimed): for every query, every patient id X passed to search (an
\* empty or absent one included) and every content of the collection, no entry
\* that the query of search can return has a metadata patient_id other than X.
C10_OnlyPatientX ==
    searchCall.called =>
        \A r \in CollectionQuery(store, WhereFilter(searchCall.patient_id),
                                 searchCall.n_results) :
            \A e \in r :
                /\ searchCall.patient_id # <<>>
                /\ e.patient_id = searchCall.patient_id[1]

\* C25 (as claimed): a call of search returns without an error, with the
\* n_results nearest of the entries that pass the patient filter, or with all of
\* them when they are fewer: never more than n_results, and the empty result
\* when no entry passes the filter.
C25_AtMostNResults ==
    searchCall.called =>
        LET m == Matching(store, WhereFilter(searchCall.patient_id))
        IN  /\ searchCall.raised = "none"
            /\ searchCall.results \subseteq m
            /\ Cardinality(searchCall.results) =
                  MinOf(searchCall.n_results, Cardinality(m))

-----------------------------------------------------------------------------
(* Claims about text building and indexing *)

\* The text of the patient and of every condition of the bundle can be built.
TextsBuild(patient_data) ==
    /\ process_patient(patient_data.patient).raised = "none"
    /\ \A i \in DOMAIN patient_data.conditions :
          process_conditions(patient_data.conditions[i]).raised = "none"

\* The entries of the collection st indexed under patient S.
EntriesOf(st, S) == { e \in st : e.patient_id = S }

\* C11 (as claimed): index_patient_data run twice for a patient with the same
\* bundle completes both times, and the collection then holds as many
\* documents of that patient as after the first run.
C11_TwiceSameAsOnce ==
    (/\ indexCall.runs = 2
     /\ indexCall.patient_data = indexCall.prev[1].patient_data
     /\ TextsBuild(indexCall.patient_data)) =>
        /\ indexCall.prev[1].raised = "none"
        /\ indexCall.raised = "none"
        /\ Cardinality(EntriesOf(store, indexCall.patient_data.patient_id))
             = Cardinality(EntriesOf(indexCall.prev[1].store,
                                     indexCall.patient_data.patient_id))

\* C12 (as claimed): after a resource was indexed a second time, the collection
\* holds exactly one entry under its id, with the text of the second run: here
\* for the patient record, whose text the second run has built.
C12_ReindexReplaces ==
    (indexCall.runs = 2 /\ indexCall.documents # <<>>) =>
        LET held == { e \in store : e.id = indexCall.ids[1] }
        IN  /\ Cardinality(held) = 1
            /\ \A e \in held : e.text = indexCall.documents[1]

\* C17 (as claimed): for a bundle with c conditions, m medications and o
\* observations whose texts can be built, index_patient_data returns
\* 1 + c + m + min(o, 50) and has submitted that many text units.
C17_CountOfUnits ==
    (indexCall.runs > 0 /\ TextsBuild(indexCall.patient_data)) =>
        LET b == indexCall.patient_data
            n == 1 + Len(b.conditions) + Len(b.medications)
                 + MinOf(Len(b.observations), ObsSampleLimit)
        IN  /\ indexCall.returned = <<n>>
            /\ Len(indexCall.ids) = n

\* C18 (as claimed): every id built in a run has the three parts patient id,
\* resource type and resource id, and the ids of a run are pairwise distinct.
C18_IdsFormedAndDistinct ==
    indexCall.runs > 0 =>
        /\ \A i \in DOMAIN indexCall.ids :
              /\ Len(indexCall.ids[i]) >= 3
              /\ indexCall.ids[i][1] = indexCall.patient_data.patient_id
              /\ indexCall.ids[i][2] \in {"patient", "condition", "medication",
                                          "observation"}
        /\ \A i, j \in DOMAIN indexCall.ids :
              i # j => indexCall.ids[i] # indexCall.ids[j]

\* C19 (as claimed): text building raises on no resource, whichever optional
\* fields are absent or empty, and produces the text.
C19_TextBuildingTotal ==
    textCall.called =>
        /\ textCall.raised = "none"
        /\ textCall.text # <<>>

-----------------------------------------------------------------------------
(* index_patient and main: the ingestion of a list of patients *)

\* The four fetches of get_all_patient_data, in the order in which the dict
\* display of lines 219-225 evaluates them.
FetchStages == <<"get_patient", "get_conditions", "get_medications", "get_observations">>

IsFetchStage(stage) == \E i \in DOMAIN FetchStages : FetchStages[i] = stage

\* A variant that leaves out the last fetch.
StageAfterMutSkipLast(stage) ==
    LET i == CHOOSE k \in DOMAIN FetchStages : FetchStages[k] = stage
    IN  IF i < Len(FetchStages) - 1 THEN FetchStages[i + 1] ELSE "index"

\* The stage after a fetch that returned: the next fetch, or index_patient_data
\* (index_patient, lines 31-35) after the last one.
StageAfter(stage) ==
    LET i == CHOOSE k \in DOMAIN FetchStages : FetchStages[k] = stage
    IN  IF i < Len(FetchStages) THEN FetchStages[i + 1] ELSE "index"

\* The Patient resources the server may return: a complete one, and one with
\* an empty name list.
ServerPatients(patient_id) ==
    { [id |-> <<<<patient_id>>>>, name |-> n, gender |-> <<"female">>,
       birthDate |-> <<"1980-01-01">>] :
        n \in {<<<<[text |-> <<"Ann Lee">>]>>>>, <<<<>>>>} }

\* entry["resource"] of a page entry <<p, i>> (lines 162, 178, 202): the
\* resource carries the id "{p}-{i}" and no optional field.
ResourceOf(stage, entry) ==
    LET id == <<<<ToString(entry[1]), ToString(entry[2])>>>>
    IN  CASE stage = "get_conditions" -> [Absent EXCEPT !.id = id]
          [] stage = "get_medications" -> [id |-> id]
          [] OTHER -> [id |-> id, code |-> <<>>, valueQuantity |-> <<>>,
                       valueString |-> <<>>, effectiveDateTime |-> <<>>]

\* The bundle get_all_patient_data returns (lines 219-225) from the four
\* results fetched.
BundleOf(g) ==
    [patient_id |-> g.patient_id, patient |-> g.fetched[1], conditions |-> g.fetched[2],
     medications |-> g.fetched[3], observations |-> g.fetched[4]]

\* A variant of the failure path that goes on with an empty result (each fetch
\* wrapped in try/except).
FetchFailedMutContinue(g, error) ==
    [g EXCEPT !.stage = StageAfter(g.stage), !.raised = error, !.failed_in = g.stage,
              !.fetched = Append(@, IF g.stage = "get_patient"
                                    THEN [id |-> <<>>, name |-> <<>>, gender |-> <<>>,
                                          birthDate |-> <<>>]
                                    ELSE <<>>)]

\* A fetch raised: nothing in get_all_patient_data or index_patient catches
\* it, and main prints it and raises it again (lines 68-70).
FetchFailed(g, error) ==
    [g EXCEPT !.stage = "raised", !.raised = error, !.failed_in = g.stage]

\* A fetch returned `result`: the next fetch, or the end of
\* get_all_patient_data.
FetchSucceeded(g, result) ==
    [g EXCEPT !.stage = StageAfter(g.stage), !.fetched = Append(@, result)]

\* main (lines 48-67) with TEST_PATIENT_ID_LIST = patient_ids, up to the first
\* fetch of index_patient for the first patient: index_patient makes a new
\* EpicFHIRClient, with a new EpicAuthClient (line 26).
Main(patient_ids) ==
    /\ ingest.stage = "idle"
    /\ ingest' = [NoIngest EXCEPT !.stage = "get_patient",
                                  !.patient_id = Head(patient_ids),
                                  !.patients = Tail(patient_ids)]
    /\ access_token' = None
    /\ token_expiry' = None
    /\ last_request_time' = 0
    /\ UNCHANGED <<now, last_exchange, token_requests, last_jti, authCall, pages,
                   call, sends, outbound, store, searchCall, textCall, indexCall>>

\* get_all_patient_data starts its next fetch (lines 221-224).
StartFetch ==
    /\ IsFetchStage(ingest.stage)
    /\ call = NoCall
    /\ IF ingest.stage = "get_patient" THEN GetPatient ELSE FetchWithPagination

\* The running fetch ended.  get_patient reads the name of the patient it got
\* (line 147: IndexError on an empty name list); the other three take
\* entry["resource"] of every entry.
EndFetch ==
    /\ IsFetchStage(ingest.stage)
    /\ call.status \in {"returned", "raised"}
    /\ call' = NoCall
    /\ \/ /\ call.status = "raised"
          /\ ingest' = FetchFailed(ingest, call.raised)
       \/ /\ call.status = "returned"
          /\ ingest.stage = "get_patient"
          /\ \E patient \in ServerPatients(ingest.patient_id) :
                ingest' = IF Get(patient.name, <<NoText>>) = <<>>
                          THEN FetchFailed(ingest, "IndexError")
                          ELSE FetchSucceeded(ingest, patient)
       \/ /\ call.status = "returned"
          /\ ingest.stage # "get_patient"
          /\ ingest' = FetchSucceeded(ingest,
                          [i \in DOMAIN call.result |->
                              ResourceOf(ingest.stage, call.result[i])])
    /\ UNCHANGED <<now, authVars, last_request_time, pages, sends, outbound, store,
                   searchCall, textCall, indexCall>>

\* index_patient, lines 31-35, and the loop of main: index_patient_data on the
\* bundle; when it returns, main goes on with the next patient or ends; when it
\* raises, main prints the error and raises it again.
IndexFetched ==
    LET out == index_patient_data(store, BundleOf(ingest))
        completed == Append(ingest.completed, ingest.patient_id)
    IN  /\ ingest.stage = "index"
        /\ ApplyIndex(BundleOf(ingest))
        /\ ingest' =
              IF out.raised # "none"
              THEN [ingest EXCEPT !.stage = "raised", !.raised = out.raised,
                                  !.failed_in = "index"]
              ELSE IF ingest.patients = <<>>
              THEN [ingest EXCEPT !.stage = "done", !.completed = completed]
              ELSE [ingest EXCEPT !.stage = "get_patient",
                                  !.patient_id = Head(ingest.patients),
                                  !.patients = Tail(ingest.patients),
                                  !.fetched = <<>>, !.completed = completed]
        /\ access_token' = IF out.raised = "none" /\ ingest.patients # <<>>
                           THEN None ELSE access_token
        /\ token_expiry' = IF out.raised = "none" /\ ingest.patients # <<>>
                           THEN None ELSE token_expiry
        /\ last_request_time' = IF out.raised = "none" /\ ingest.patients # <<>>
                                THEN 0 ELSE last_request_time
        /\ UNCHANGED <<now, last_exchange, token_requests, last_jti, authCall, pages,
                       call, sends, outbound, searchCall, textCall>>

\* the clock value at which the observation ends
IngestHorizon == 200
IngestAuthResponses ==
    {AuthResponse("ok", FALSE, 0, 0), AuthResponse("http_error", FALSE, 0, 0)}
IngestGetResponses == { GetResponse(st, 0) : st \in {StatusOk, StatusServerError} }

\* TEST_PATIENT_ID_LIST: one patient or two.
PatientLists == { <<p>> : p \in Patients } \cup { <<p, q>> : p, q \in Patients }

InitIngest ==
    /\ now = StartTime
    /\ InitAuth /\ InitFhir /\ InitPipeIdle
    /\ pages \in PageConfigs
    /\ Canonical(pages)
    /\ ProperChain

NextIngest ==
    \/ \E ids \in PatientLists : Main(ids)
    \/ StartFetch
    \/ \E a \in IngestAuthResponses, g \in IngestGetResponses :
          MakeRequest(a, g, IngestHorizon)
    \/ EndFetch
    \/ IndexFetched

SpecIngest == InitIngest /\ [][NextIngest]_vars

-----------------------------------------------------------------------------
(* Claims about the ingestion of a patient *)

\* No ingestion of a patient ever completes: index_patient_data raises on every
\* bundle, so main never gets to a second patient.
NoPatientCompletes ==
    /\ ingest.completed = <<>>
    /\ ingest.stage # "done"
    /\ store = {}

\* C13: an ingestion that failed, at whatever stage, has left no entry of its
\* patient in the collection.
C13_FailureLeavesNothing ==
    ingest.stage = "raised" =>
        /\ EntriesOf(store, ingest.patient_id) = {}
        /\ \A i \in DOMAIN indexCall.ids : \A e \in store : e.id # indexCall.ids[i]

\* An ingestion that fetched a bundle with conditions and failed in
\* index_patient_data, after the texts of the patient and of the conditions
\* were built.
C13_Witness ==
    /\ ingest.stage = "raised"
    /\ ingest.failed_in = "index"
    /\ indexCall.runs = 1
    /\ Len(indexCall.documents) >= 3

\* C14: when one of the four fetches of get_all_patient_data fails, no later
\* fetch is made, no bundle is returned, index_patient_data is not called and
\* the error of the fetch is the one main raises.
C14_FetchFailureAborts ==
    ingest.failed_in \in {"get_patient", "get_conditions", "get_medications",
                          "get_observations"} =>
        /\ ingest.stage = "raised"
        /\ ingest.raised \in {"HTTPError", "RequestException", "RecursionError",
                               "IndexError"}
        /\ call = NoCall
        /\ Len(ingest.fetched) < 4
        /\ indexCall.runs = 0

\* The medication fetch failed with an HTTP error after the patient and the
\* conditions had been fetched.
C14_Witness ==
    /\ ingest.failed_in = "get_medications"
    /\ ingest.raised = "HTTPError"
    /\ Len(ingest.fetched) = 2
    /\ ingest.stage = "raised"

\* The number of fetches that come before a stage.
FetchesBefore(stage) ==
    CASE stage = "get_patient" -> 0
      [] stage = "get_conditions" -> 1
      [] stage = "get_medications" -> 2
      [] stage = "get_observations" -> 3
      [] OTHER -> 4

\* C16: within an ingestion the patient fetch, the condition, medication and
\* observation fetches, text building, embedding and the store write come in
\* this order, each after the one before it has completed: a fetch runs when
\* exactly the fetches before it have returned, index_patient_data gets the
\* bundle of all four, embedding starts with every text built, and the
\* collection changes only in a run that got through all of it.
C16_StagesInOrder ==
    /\ ingest.stage \in {"get_patient", "get_conditions", "get_medications",
                          "get_observations", "index"} =>
          Len(ingest.fetched) = FetchesBefore(ingest.stage)
    /\ call.status = "running" =>
          /\ ingest.stage \in {"get_patient", "get_conditions", "get_medications",
                                "get_observations"}
          /\ (call.op = "request") = (ingest.stage = "get_patient")
    /\ indexCall.runs > 0 =>
          /\ Len(ingest.fetched) = 4
          /\ indexCall.patient_data = BundleOf(ingest)
          /\ indexCall.stage \in {"embed", "write", "done"} =>
                Len(indexCall.documents) =
                    1 + Len(ingest.fetched[2]) + Len(ingest.fetched[3])
                    + MinOf(Len(ingest.fetched[4]), ObsSampleLimit)
    /\ store # {} => indexCall.stage = "done"

\* Text building started on a bundle whose four fetches had all returned, two
\* of them with resources.
C16_Witness ==
    /\ indexCall.runs = 1
    /\ indexCall.stage = "text"
    /\ Len(ingest.fetched) = 4
    /\ ingest.fetched[2] # <<>>
    /\ ingest.fetched[4] # <<>>
    /\ Len(indexCall.documents) = 1 + Len(ingest.fetched[2])

-----------------------------------------------------------------------------
(* Claims about the lists index_patient_data builds *)

\* C22 (as claimed): the metadata of every entry index_patient_data builds for
\* the store, the one of the patient record included, carries the patient id,
\* the resource type, the resource id and the timestamp.
C22_MetadataComplete ==
    indexCall.runs > 0 =>
        \A i \in DOMAIN indexCall.metadatas :
            /\ {"patient_id", "resource_type", "resource_id", "timestamp"}
                  \subseteq DOMAIN indexCall.metadatas[i]
            /\ indexCall.metadatas[i].patient_id = indexCall.patient_data.patient_id

\* C26 (as claimed): a run of index_patient_data on a bundle whose texts can be
\* built gets to the store write with documents, embeddings, metadatas and ids
\* of one length, one of each for every text unit.
C26_ListsAligned ==
    (indexCall.runs > 0 /\ TextsBuild(indexCall.patient_data)) =>
        /\ indexCall.stage \in {"write", "done"}
        /\ Len(indexCall.embeddings) = Len(indexCall.documents)
        /\ Len(indexCall.metadatas) = Len(indexCall.documents)
        /\ Len(indexCall.ids) = Len(indexCall.documents)

-----------------------------------------------------------------------------
(* Claims about the rendering of observations and coded fields *)

\* The last text-building call built the text of a resource of this kind.
Built(kind) == textCall.called /\ textCall.kind = kind /\ textCall.raised = "none"

\* C23 (as claimed): process_observation renders the quantity whenever the
\* observation has a valueQuantity with a value (a value of 0 or a quantity
\* without unit included), and valueString only when it has no quantity; it
\* never renders both.
C23_QuantityWhenPresent ==
    Built("observation") =>
        LET o == textCall.resource
            rendered == SubSeq(textCall.text, 4, Len(textCall.text) - 2)
        IN  IF o.valueQuantity # <<>> /\ o.valueQuantity[1].value # <<>>
            THEN /\ rendered[1] = o.valueQuantity[1].value[1]
                 /\ o.valueString # <<>> =>
                       \A i \in DOMAIN rendered : rendered[i] # o.valueString[1]
            ELSE rendered = <<Get(o.valueString, "No value")>>

\* The name a coded field is to render: the display of its first coding, else
\* the text of the code, else the placeholder.
PreferredName(code, placeholder) ==
    LET c == Get(code, NoCode)
        codings == Get(c.coding, <<NoCoding>>)
    IN  IF codings # <<>> /\ codings[1].display # <<>> THEN codings[1].display[1]
        ELSE Get(c.text, placeholder)

\* C24 (as claimed): the name rendered for the code of a condition or
\* observation is the display of the coding when present, otherwise the text
\* of the code when present, otherwise the placeholder.
C24_DisplayThenTextThenPlaceholder ==
    /\ Built("condition") =>
          textCall.text[2] = PreferredName(textCall.resource.code, "Unknown Condition")
    /\ Built("observation") =>
          textCall.text[2] = PreferredName(textCall.resource.code, "Unknown Observation")

====
